---- MODULE Spec2Model ----
(***************************************************************************)
(* A model of the pdf-qa retrieval pipeline: the in-process vector store   *)
(* (core/vector_store.py), the text chunker and the PDF text source        *)
(* (utils.py), the cached embedding model (core/embeddings.py), the        *)
(* generation call (models/gemini.py) and the upload pipeline (app.py).    *)
(*                                                                         *)
(* An optional Python value is a sequence of length 0 (None) or 1.         *)
(* A text is a sequence of one-character strings.                          *)
(***************************************************************************)
EXTENDS Integers, Sequences, FiniteSets, TLC

\* ------------------------------------------------------------- bounds
\* Longest chunk list / embedding matrix handed to create_vector_store.
MaxChunks == 2
\* Largest top_k handed to search_similar_chunks.
MaxTopK == 3
\* Most calls of load_embedding_model in one run.
MaxCalls == 4
\* Longest query, context and reply text handed to generate_gemini_response.
MaxStrLen == 2
\* Most pages of an uploaded PDF.
MaxPages == 2
\* Most builds the writer of the concurrent store starts.
MaxBuilds == 2
\* Longest text, largest chunk_size and most loop iterations of chunk_text.
MaxTextLen == 7
MaxChunkSize == 4
MaxIters == 8

\* ------------------------------------------------------------- values
None == << >>
Some(x) == << x >>
IsNone(o) == Len(o) = 0
Val(o) == o[1]

Min2(a, b) == IF a <= b THEN a ELSE b
Max2(a, b) == IF a >= b THEN a ELSE b
Abs(a) == IF a < 0 THEN 0 - a ELSE a

\* Documents the callers upload; a chunk of the store is [doc, pos].
Docs == {1, 2}
ChunkList(d, n) == [i \in 1..n |-> [doc |-> d, pos |-> i]]

\* Embedding vectors: axis-aligned 2-d integer vectors, so that the L2 norm
\* and the inner product of normalized vectors are exact integers.
InputVectors == {[x |-> 1, y |-> 0], [x |-> 0, y |-> 2], [x |-> 0 - 1, y |-> 0]}
QueryVectors == {[x |-> 2, y |-> 0], [x |-> 0, y |-> 1]}
Norm(v) == Abs(v.x) + Abs(v.y)
\* faiss.normalize_L2 on one row.
NormalizeL2(v) == [x |-> v.x \div Norm(v), y |-> v.y \div Norm(v)]
InnerProduct(a, b) == a.x * b.x + a.y * b.y

\* The array create_embeddings returns for no texts, np.array([]), has one
\* axis only; every other embeddings value is a 2-d array, a sequence of rows.
BadShape == [ndim |-> 1, rows |-> << >>]
Matrix(rows) == [ndim |-> 2, rows |-> rows]
SeqsUpTo(S, n) == UNION {[1..k -> S] : k \in 0..n}
EmbeddingInputs == {BadShape} \cup {Matrix(r) : r \in SeqsUpTo(InputVectors, MaxChunks)}

\* The score faiss reports with the label -1 for a neighbour that does not
\* exist (the lowest float32, below every inner product).
MissingScore == 0 - 1000

VARIABLES
  vector_store,      \* _vector_store: None or the index [doc, vecs]
  document_chunks,   \* _document_chunks: None or the chunk list
  built,             \* history: a build succeeded since the last clear / start
  lastBuild,         \* history: the arguments of the last successful build,
                     \* and whether it replaced an existing index
  lastOp,            \* the last store call and what it returned
  embedding_model,   \* _embedding_model: None or the cached model
  lpc,               \* per thread: where it is in load_embedding_model
  llocal,            \* per thread: the model its constructor call returned
  initCount,         \* history: how often the model constructor has run
  calls,             \* history: how many calls have started
  loadLog,           \* history: what each finished call returned or raised
  gres,              \* the last generate_gemini_response call: arguments, result
  text,              \* chunk_text: text
  chunk_size,        \* chunk_text: chunk_size
  chunk_overlap,     \* chunk_text: chunk_overlap
  cstart,            \* chunk_text: start
  chunk_list,        \* chunk_text: chunks
  spans,             \* history: per loop iteration, the window and the break
  iters,             \* history: loop iterations so far
  cpc,               \* chunk_text: idle, call, loop or done
  upc,               \* app.py: where the script is in the upload branch
  up,                \* app.py: uploaded_file, extracted_text, chunks, embeddings
  wpc,               \* writer thread: where it is in create / clear
  wjob,              \* writer thread: the index and chunks it is about to store
  nbuilds,           \* history: builds started
  vs_build,          \* history: the build _vector_store comes from (0: none)
  dc_build,          \* history: the build _document_chunks comes from (0: none)
  rpc,               \* reader thread: where it is in search / info
  rloc               \* reader thread: its locals and what it has read

storeVars == << vector_store, document_chunks, built, lastBuild, lastOp >>
loaderVars == << embedding_model, lpc, llocal, initCount, calls, loadLog >>
geminiVars == << gres >>
chunkVars == << text, chunk_size, chunk_overlap, cstart, chunk_list, spans, iters, cpc >>
uploadVars == << upc, up >>
concVars == << wpc, wjob, nbuilds, vs_build, dc_build, rpc, rloc >>
vars == << storeVars, loaderVars, geminiVars, chunkVars, uploadVars, concVars >>

\* ------------------------------------------------- core/vector_store.py
\* IndexFlatIP(dimension); normalize_L2(embeddings); index.add(embeddings).
\* doc is a history field: the document the index was built for.
NewIndex(doc, embeddings) ==
  [doc |-> doc,
   vecs |-> [i \in 1..Len(embeddings.rows) |-> NormalizeL2(embeddings.rows[i])]]

Ntotal(index) == Len(index.vecs)

\* The best of the positions in S: highest inner product, lowest position
\* among equals.
Best(vecs, q, S) ==
  CHOOSE i \in S : \A j \in S :
    \/ InnerProduct(vecs[i], q) > InnerProduct(vecs[j], q)
    \/ InnerProduct(vecs[i], q) = InnerProduct(vecs[j], q) /\ i <= j

RECURSIVE TopK(_, _, _, _)
TopK(vecs, q, S, k) ==
  IF k = 0 \/ S = {} THEN << >>
  ELSE LET b == Best(vecs, q, S)
       IN  << [idx |-> b - 1, sim |-> InnerProduct(vecs[b], q)] >>
             \o TopK(vecs, q, S \ {b}, k - 1)

\* index.search(query, top_k): always top_k (label, score) pairs, labels are
\* 0-based positions, a missing neighbour has label -1.
FaissSearch(index, q, k) ==
  LET found == TopK(index.vecs, q, 1..Ntotal(index), k)
  IN  found \o [i \in 1..(k - Len(found)) |-> [idx |-> 0 - 1, sim |-> MissingScore]]

\* Python's list[idx]: a negative idx counts from the end.
PyInRange(list, idx) == idx < Len(list) /\ idx >= 0 - Len(list)
PyItem(list, idx) == IF idx >= 0 THEN list[idx + 1] ELSE list[Len(list) + idx + 1]

NoOp == [op |-> "none", status |-> "ok", results |-> << >>, total_vectors |-> 0,
         total_chunks |-> 0, top_k |-> 0]
Outcome(op, status) == [NoOp EXCEPT !.op = op, !.status = status]

\* A build that adds to the index and the chunk list it finds.
CreateVectorStoreMerging(doc, chunks, embeddings) ==
  IF embeddings.ndim < 2
  THEN /\ lastOp' = Outcome("create", "error")
       /\ UNCHANGED << vector_store, document_chunks, built, lastBuild >>
  ELSE /\ vector_store' =
            Some([doc |-> doc,
                  vecs |-> (IF IsNone(vector_store) THEN << >> ELSE Val(vector_store).vecs)
                             \o NewIndex(doc, embeddings).vecs])
       /\ document_chunks' =
            Some((IF IsNone(document_chunks) THEN << >> ELSE Val(document_chunks))
                   \o chunks)
       /\ built' = TRUE
       /\ lastBuild' = [chunks |-> chunks, nvec |-> Len(embeddings.rows),
                        replaced |-> ~IsNone(vector_store)]
       /\ lastOp' = Outcome("create", "ok")

\* create_vector_store(chunks, embeddings), lines 24-49.
CreateVectorStore(doc, chunks, embeddings) ==
  IF embeddings.ndim < 2
  THEN \* embeddings.shape[1] raises; nothing was assigned
       /\ lastOp' = Outcome("create", "error")
       /\ UNCHANGED << vector_store, document_chunks, built, lastBuild >>
  ELSE /\ vector_store' = Some(NewIndex(doc, embeddings))
       /\ document_chunks' = Some(chunks)
       /\ built' = TRUE
       /\ lastBuild' = [chunks |-> chunks, nvec |-> Len(embeddings.rows),
                        replaced |-> ~IsNone(vector_store)]
       /\ lastOp' = Outcome("create", "ok")

\* The loop of lines 80-85 over the pairs faiss returned, from pair i on.
RECURSIVE Collect(_, _, _)
Collect(chunks, pairs, i) ==
  IF i > Len(pairs) THEN [status |-> "ok", results |-> << >>]
  ELSE IF pairs[i].idx < Len(chunks)
       THEN IF ~PyInRange(chunks, pairs[i].idx)
            THEN [status |-> "index_error", results |-> << >>]
            ELSE LET rest == Collect(chunks, pairs, i + 1)
                 IN  IF rest.status # "ok" THEN rest
                     ELSE [status |-> "ok",
                           results |-> << [chunk |-> PyItem(chunks, pairs[i].idx),
                                           score |-> pairs[i].sim] >> \o rest.results]
       ELSE Collect(chunks, pairs, i + 1)

\* search_similar_chunks(query_embedding, top_k), lines 64-93.
SearchSimilarChunks(query, top_k) ==
  /\ UNCHANGED << vector_store, document_chunks, built, lastBuild >>
  /\ IF IsNone(vector_store) \/ IsNone(document_chunks)
     THEN lastOp' = [Outcome("search", "not_initialized") EXCEPT !.top_k = top_k]
     ELSE LET pairs == FaissSearch(Val(vector_store), NormalizeL2(query), top_k)
              got == Collect(Val(document_chunks), pairs, 1)
          IN  lastOp' = [Outcome("search", got.status) EXCEPT
                           !.results = got.results, !.top_k = top_k]

\* A clear that assigns function locals (no global statement).
ClearVectorStoreLocalOnly ==
  /\ built' = FALSE
  /\ lastOp' = Outcome("clear", "ok")
  /\ UNCHANGED << vector_store, document_chunks, lastBuild >>

\* clear_vector_store(), lines 99-103.
ClearVectorStore ==
  /\ vector_store' = None
  /\ document_chunks' = None
  /\ built' = FALSE
  /\ lastOp' = Outcome("clear", "ok")
  /\ UNCHANGED lastBuild

\* get_vector_store_info(), lines 112-122.
GetVectorStoreInfo ==
  /\ UNCHANGED << vector_store, document_chunks, built, lastBuild >>
  /\ IF IsNone(vector_store)
     THEN lastOp' = Outcome("info", "empty")
     ELSE lastOp' = [Outcome("info", "ready") EXCEPT
            !.total_vectors = Ntotal(Val(vector_store)),
            !.total_chunks = IF IsNone(document_chunks) THEN 0
                             ELSE Len(Val(document_chunks))]

StoreInit ==
  /\ vector_store = None
  /\ document_chunks = None
  /\ built = FALSE
  /\ lastBuild = [chunks |-> << >>, nvec |-> 0, replaced |-> FALSE]
  /\ lastOp = NoOp

\* ---------------------------------------------------- core/embeddings.py
Threads == {1, 2}
Devices == {"mps", "cuda", "cpu"}

LoaderInit ==
  /\ embedding_model = None
  /\ lpc = [t \in Threads |-> "idle"]
  /\ llocal = [t \in Threads |-> None]
  /\ initCount = 0
  /\ calls = 0
  /\ loadLog = << >>

LogEntry(t, kind, model) ==
  [thread |-> t, kind |-> kind, model |-> model, cacheAfter |-> embedding_model]

\* A caller enters load_embedding_model.
LoadCall(t) ==
  /\ lpc[t] = "idle"
  /\ calls < MaxCalls
  /\ calls' = calls + 1
  /\ lpc' = [lpc EXCEPT ![t] = "check"]
  /\ UNCHANGED << embedding_model, llocal, initCount, loadLog >>

\* Lines 24-26: the cached model, if there is one, is returned.
LoadCheck(t) ==
  /\ lpc[t] = "check"
  /\ IF ~IsNone(embedding_model)
     THEN /\ loadLog' = Append(loadLog, LogEntry(t, "cached", embedding_model))
          /\ lpc' = [lpc EXCEPT ![t] = "idle"]
     ELSE /\ lpc' = [lpc EXCEPT ![t] = "init"]
          /\ UNCHANGED loadLog
  /\ UNCHANGED << embedding_model, llocal, initCount, calls >>

\* A failed constructor call that leaves a half-built model in the cache.
LoadConstructPoisoning(t) ==
  /\ lpc[t] = "init"
  /\ initCount' = initCount + 1
  /\ \E ok \in BOOLEAN, dev \in Devices :
       IF ok
       THEN /\ llocal' = [llocal EXCEPT ![t] = Some([id |-> initCount + 1, device |-> dev])]
            /\ lpc' = [lpc EXCEPT ![t] = "assign"]
            /\ UNCHANGED << embedding_model, loadLog >>
       ELSE /\ embedding_model' = Some([id |-> initCount + 1, device |-> dev])
            /\ loadLog' = Append(loadLog, [LogEntry(t, "error", None) EXCEPT
                                             !.cacheAfter = embedding_model'])
            /\ lpc' = [lpc EXCEPT ![t] = "idle"]
            /\ UNCHANGED llocal
  /\ UNCHANGED calls

\* Lines 28-43 and 48-51: the device is chosen and SentenceTransformer(...)
\* runs; it returns a new model, or raises and the call raises.
LoadConstruct(t) ==
  /\ lpc[t] = "init"
  /\ initCount' = initCount + 1
  /\ \E ok \in BOOLEAN, dev \in Devices :
       IF ok
       THEN /\ llocal' = [llocal EXCEPT ![t] = Some([id |-> initCount + 1, device |-> dev])]
            /\ lpc' = [lpc EXCEPT ![t] = "assign"]
            /\ UNCHANGED loadLog
       ELSE /\ loadLog' = Append(loadLog, LogEntry(t, "error", None))
            /\ lpc' = [lpc EXCEPT ![t] = "idle"]
            /\ UNCHANGED llocal
  /\ UNCHANGED << embedding_model, calls >>

\* Line 43: the constructor's result is bound to the global.
LoadAssign(t) ==
  /\ lpc[t] = "assign"
  /\ embedding_model' = llocal[t]
  /\ llocal' = [llocal EXCEPT ![t] = None]
  /\ lpc' = [lpc EXCEPT ![t] = "return"]
  /\ UNCHANGED << initCount, calls, loadLog >>

\* Line 46: the global is read again and returned.
LoadReturn(t) ==
  /\ lpc[t] = "return"
  /\ loadLog' = Append(loadLog, LogEntry(t, "loaded", embedding_model))
  /\ lpc' = [lpc EXCEPT ![t] = "idle"]
  /\ UNCHANGED << embedding_model, llocal, initCount, calls >>

Quiescent == \A t \in Threads : lpc[t] = "idle"

\* ------------------------------------------------------------- texts
\* str.isspace and str.isupper on the characters the model uses.
WhiteSpace == {" ", "\t", "\n", "\r", "\f"}
UpperCase == {"A", "B", "C", "D", "E", "F", "G", "H", "I", "J", "K", "L", "M",
              "N", "O", "P", "Q", "R", "S", "T", "U", "V", "W", "X", "Y", "Z"}
IsSpace(c) == c \in WhiteSpace
IsUpper(c) == c \in UpperCase

SetMax(S) == CHOOSE m \in S : \A x \in S : x <= m
SetMin(S) == CHOOSE m \in S : \A x \in S : m <= x

\* Python's s[a:b] for 0 <= a.
Slice(s, a, b) == SubSeq(s, a + 1, Min2(b, Len(s)))

\* A strip that removes blanks only.
StripBlanksOnly(s) ==
  LET keep == {i \in 1..Len(s) : s[i] # " "}
  IN  IF keep = {} THEN << >> ELSE SubSeq(s, SetMin(keep), SetMax(keep))

\* How many characters of s remain when its trailing whitespace is removed.
RStripLen(s) ==
  LET keep == {i \in 1..Len(s) : ~IsSpace(s[i])}
  IN  IF keep = {} THEN 0 ELSE SetMax(keep)

\* str.strip(): leading and trailing whitespace removed.
StripText(s) ==
  LET keep == {i \in 1..Len(s) : ~IsSpace(s[i])}
  IN  IF keep = {} THEN << >> ELSE SubSeq(s, SetMin(keep), SetMax(keep))

\* ------------------------------------------------------ models/gemini.py
\* What model.generate_content does: a reply with a text, a reply without
\* one, or an exception whose message may mention the API key or the quota.
GeminiTexts == SeqsUpTo({"q", " ", "\n"}, MaxStrLen)
RemoteOutcomes ==
  {[kind |-> "reply", text |-> t, api_key |-> FALSE, quota |-> FALSE] :
     t \in SeqsUpTo({"a", " "}, 1)}
  \cup {[kind |-> "raise", text |-> << >>, api_key |-> k, quota |-> q] :
          k \in BOOLEAN, q \in BOOLEAN}

GeminiResult(query, context, status, answer, called) ==
  [query |-> query, context |-> context, status |-> status, answer |-> answer,
   remote_called |-> called]

GeminiInit == gres = GeminiResult(<< >>, << >>, "none", << >>, FALSE)

\* generate_gemini_response(query, context), lines 23-96; remote is what
\* the remote model does if it is called.
GenerateGeminiResponse(query, context, remote) ==
  gres' =
    IF StripText(query) = << >>
    THEN GeminiResult(query, context, "error", << >>, FALSE)
    ELSE IF StripText(context) = << >>
    THEN GeminiResult(query, context, "no_context", << >>, FALSE)
    ELSE IF remote.kind = "reply"
    THEN IF remote.text # << >>
         THEN GeminiResult(query, context, "success", StripText(remote.text), TRUE)
         ELSE GeminiResult(query, context, "empty_response", << >>, TRUE)
    ELSE IF remote.api_key
    THEN GeminiResult(query, context, "api_key_error", << >>, TRUE)
    ELSE IF remote.quota
    THEN GeminiResult(query, context, "quota_error", << >>, TRUE)
    ELSE GeminiResult(query, context, "error", << >>, TRUE)

\* ------------------------------------------------ utils.py: chunk_text
ScanWindow == 100
SentenceEndings == {".", "!", "?", "\n"}

\* Lines 141-147: the break after the last sentence ending the scan accepts
\* in text[start:end], or -1.
SentenceBreak(t, start, end) ==
  LET w == Slice(t, start, end)
      L == Len(w)
      hits == {i \in (Max2(L - ScanWindow, 0) + 1)..(L - 1) :
                 /\ w[i + 1] \in SentenceEndings
                 /\ i < L - 1
                 /\ (IsSpace(w[i + 2]) \/ IsUpper(w[i + 2]))}
  IN  IF hits = {} THEN 0 - 1 ELSE start + SetMax(hits) + 1

\* str.rfind(' ').
LastSpace(w) ==
  LET at == {i \in 0..(Len(w) - 1) : w[i + 1] = " "}
  IN  IF at = {} THEN 0 - 1 ELSE SetMax(at)

\* One pass of the loop body, lines 126-170, from `start`: the chunk, its
\* slice [from, to), where the stripped chunk ends (stop), the window's end,
\* the next start, and whether the loop breaks.
ChunkBody(t, size, overlap, start) ==
  LET end == start + size
      best_break == SentenceBreak(t, start, end)
      last_space == LastSpace(Slice(t, start, end))
      step(kind, to, e) ==
        [final |-> FALSE, kind |-> kind, from |-> start, to |-> to,
         stop |-> start + RStripLen(Slice(t, start, to)),
         chunk |-> StripText(Slice(t, start, to)), wend |-> end,
         next |-> Max2(e - overlap, 0)]
  IN  IF end >= Len(t)
      THEN [final |-> TRUE, kind |-> "last", from |-> start, to |-> Len(t),
            stop |-> start + RStripLen(Slice(t, start, Len(t))),
            chunk |-> StripText(Slice(t, start, Len(t))), wend |-> Len(t),
            next |-> start]
      ELSE IF best_break > start
      THEN step("sentence", best_break, end)
      ELSE IF 10 * last_space > 7 * size
      THEN step("word", start + last_space, start + last_space)
      ELSE step("raw", end, end)

AppendChunk(acc, chunk) == IF chunk # << >> THEN Append(acc, chunk) ELSE acc
\* Line 173.
DropEmpty(acc) == SelectSeq(acc, LAMBDA c : StripText(c) # << >>)

RECURSIVE ChunkLoop(_, _, _, _, _)
ChunkLoop(t, size, overlap, start, acc) ==
  LET b == ChunkBody(t, size, overlap, start)
  IN  IF b.final THEN DropEmpty(AppendChunk(acc, b.chunk))
      ELSE ChunkLoop(t, size, overlap, b.next, AppendChunk(acc, b.chunk))

\* chunk_text(text, chunk_size, chunk_overlap) as a function, lines 112-176.
ChunkText(t, size, overlap) ==
  IF t = << >> \/ StripText(t) = << >> THEN << >>
  ELSE IF Len(StripText(t)) <= size THEN << StripText(t) >>
  ELSE ChunkLoop(StripText(t), size, overlap, 0, << >>)

ChunkIdle ==
  /\ text = << >>
  /\ chunk_size = 1
  /\ chunk_overlap = 0
  /\ cstart = 0
  /\ chunk_list = << >>
  /\ spans = << >>
  /\ iters = 0
  /\ cpc = "idle"

\* Whitespace-normalized texts: no leading, trailing or doubled blank.
ChunkAlphabet == {"a", "A", " ", "."}
IsNormalized(t) ==
  /\ Len(t) >= 1
  /\ t[1] # " "
  /\ t[Len(t)] # " "
  /\ \A i \in 1..(Len(t) - 1) : ~(t[i] = " " /\ t[i + 1] = " ")
NormalizedTexts == {t \in SeqsUpTo(ChunkAlphabet, MaxTextLen) : IsNormalized(t)}

\* A call chunk_text(text, chunk_size, chunk_overlap) with
\* chunk_size > chunk_overlap >= 0.
ChunkCallInit ==
  /\ text \in NormalizedTexts
  /\ chunk_size \in 1..MaxChunkSize
  /\ chunk_overlap \in 0..(chunk_size - 1)
  /\ cstart = 0
  /\ chunk_list = << >>
  /\ spans = << >>
  /\ iters = 0
  /\ cpc = "call"

\* Lines 112-123.
ChunkEnter ==
  /\ cpc = "call"
  /\ UNCHANGED << chunk_size, chunk_overlap, cstart, spans, iters >>
  /\ IF text = << >> \/ StripText(text) = << >>
     THEN chunk_list' = << >> /\ cpc' = "done" /\ UNCHANGED text
     ELSE /\ text' = StripText(text)
          /\ IF Len(text') <= chunk_size
             THEN chunk_list' = << text' >> /\ cpc' = "done"
             ELSE chunk_list' = << >> /\ cpc' = "loop"

\* One iteration of the while loop, lines 125-170; the iteration that
\* breaks also runs lines 173-176.
ChunkIterate ==
  /\ cpc = "loop"
  /\ cstart < Len(text)
  /\ iters < MaxIters
  /\ LET b == ChunkBody(text, chunk_size, chunk_overlap, cstart)
     IN  /\ spans' = Append(spans, [final |-> b.final, kind |-> b.kind,
                                    from |-> b.from, to |-> b.to,
                                    stop |-> b.stop, wend |-> b.wend])
         /\ iters' = iters + 1
         /\ cstart' = b.next
         /\ IF b.final
            THEN chunk_list' = DropEmpty(AppendChunk(chunk_list, b.chunk)) /\ cpc' = "done"
            ELSE chunk_list' = AppendChunk(chunk_list, b.chunk) /\ cpc' = "loop"
  /\ UNCHANGED << text, chunk_size, chunk_overlap >>

\* ------------------------------------- utils.py: extract_text_from_pdf
\* The characters of a Python string.
PasswordMessage ==
  << "E", "r", "r", "o", "r", ":", " ", "P", "D", "F", " ", "i", "s", " ",
     "p", "a", "s", "s", "w", "o", "r", "d", " ", "p", "r", "o", "t", "e",
     "c", "t", "e", "d", ".", " ", "P", "l", "e", "a", "s", "e", " ", "p",
     "r", "o", "v", "i", "d", "e", " ", "a", "n", " ", "u", "n", "l", "o",
     "c", "k", "e", "d", " ", "P", "D", "F", "." >>
NoTextMessage ==
  << "E", "r", "r", "o", "r", ":", " ", "N", "o", " ", "r", "e", "a", "d",
     "a", "b", "l", "e", " ", "t", "e", "x", "t", " ", "f", "o", "u", "n",
     "d", " ", "i", "n", " ", "P", "D", "F", ".", " ", "T", "h", "i", "s",
     " ", "m", "i", "g", "h", "t", " ", "b", "e", " ", "a", " ", "s", "c",
     "a", "n", "n", "e", "d", " ", "d", "o", "c", "u", "m", "e", "n", "t",
     " ", "o", "r", " ", "i", "m", "a", "g", "e", "-", "o", "n", "l", "y",
     " ", "P", "D", "F", "." >>
ProcessingPrefix ==
  << "E", "r", "r", "o", "r", " ", "p", "r", "o", "c", "e", "s", "s", "i",
     "n", "g", " ", "P", "D", "F", ":", " " >>
\* str(e) of the exception a PDF that cannot be read raises.
ReaderErrorText ==
  << "E", "O", "F", " ", "m", "a", "r", "k", "e", "r", " ", "n", "o", "t",
     " ", "f", "o", "u", "n", "d" >>

\* str.split('\n').
RECURSIVE SplitLines(_)
SplitLines(t) ==
  LET nl == {i \in 1..Len(t) : t[i] = "\n"}
  IN  IF nl = {} THEN << t >>
      ELSE << SubSeq(t, 1, SetMin(nl) - 1) >>
             \o SplitLines(SubSeq(t, SetMin(nl) + 1, Len(t)))

\* ' '.join(lines).
RECURSIVE JoinWithSpace(_)
JoinWithSpace(lines) ==
  IF lines = << >> THEN << >>
  ELSE IF Len(lines) = 1 THEN lines[1]
  ELSE lines[1] \o << " " >> \o JoinWithSpace(Tail(lines))

\* re.sub(r'\s+', ' ', t).
RECURSIVE CollapseWhitespace(_)
CollapseWhitespace(t) ==
  IF t = << >> THEN << >>
  ELSE IF IsSpace(t[1])
  THEN LET rest == CollapseWhitespace(Tail(t))
       IN  IF Len(t) > 1 /\ IsSpace(t[2]) THEN rest ELSE << " " >> \o rest
  ELSE << t[1] >> \o CollapseWhitespace(Tail(t))

\* clean_extracted_text(text), lines 76-96.
CleanExtractedText(t) ==
  IF t = << >> THEN << >>
  ELSE LET stripped == [i \in DOMAIN SplitLines(t) |-> StripText(SplitLines(t)[i])]
           cleaned_lines == SelectSeq(stripped, LAMBDA l : l # << >>)
       IN  StripText(CollapseWhitespace(JoinWithSpace(cleaned_lines)))

\* Lines 35-50: the text of the pages that have some and do not raise.
RECURSIVE FullText(_)
FullText(pages) ==
  IF pages = << >> THEN << >>
  ELSE (IF ~pages[1].raises /\ StripText(pages[1].text) # << >>
        THEN pages[1].text \o << "\n", "\n" >> ELSE << >>)
       \o FullText(Tail(pages))

\* What extract_text_from_pdf makes of a file, lines 19-64: which way it
\* ends and the string it returns.
Extraction(file) ==
  IF file.unreadable
  THEN [outcome |-> "processing_error", returned |-> ProcessingPrefix \o ReaderErrorText]
  ELSE IF file.encrypted /\ file.decrypt_raises
  THEN [outcome |-> "password_protected", returned |-> PasswordMessage]
  ELSE IF StripText(CleanExtractedText(FullText(file.pages))) = << >>
  THEN [outcome |-> "no_readable_text", returned |-> NoTextMessage]
  ELSE [outcome |-> "ok", returned |-> CleanExtractedText(FullText(file.pages))]

ExtractTextFromPdf(file) == Extraction(file).returned

\* ------------------------------------------------------------ config.py
CHUNK_SIZE == 1000
CHUNK_OVERLAP == 200
TOP_K_RESULTS == 3

\* ---------------------------------------- app.py: the upload branch
PageInputs ==
  {[raises |-> FALSE, text |-> << "H", "i", "." >>],
   [raises |-> FALSE, text |-> << "a", " ", "\n", " ", "b" >>],
   [raises |-> FALSE, text |-> << " ", "\n" >>],
   [raises |-> TRUE, text |-> << >>]}
Files ==
  [unreadable : BOOLEAN, encrypted : BOOLEAN, decrypt_raises : BOOLEAN,
   pages : SeqsUpTo(PageInputs, MaxPages)]

NoUpload ==
  [n |-> 0, outcome |-> "none", extracted_text |-> << >>, chunks |-> << >>,
   embeddings |-> BadShape, shown |-> "none",
   file |-> [unreadable |-> FALSE, encrypted |-> FALSE, decrypt_raises |-> FALSE,
             pages |-> << >>]]

UploadInit == upc = "idle" /\ up = NoUpload

\* Line 17: a file is uploaded and the script runs.
UpStart(file) ==
  /\ upc \in {"idle", "failed"}
  /\ calls < MaxCalls
  /\ up' = [NoUpload EXCEPT !.n = up.n + 1, !.file = file]
  /\ upc' = "clear"
  /\ UNCHANGED << storeVars, loaderVars >>

\* Line 19.
UpClear ==
  /\ upc = "clear"
  /\ ClearVectorStore
  /\ upc' = "extract"
  /\ UNCHANGED << up, loaderVars >>

\* Line 23.
UpExtract ==
  /\ upc = "extract"
  /\ up' = [up EXCEPT !.outcome = Extraction(up.file).outcome,
                      !.extracted_text = ExtractTextFromPdf(up.file)]
  /\ upc' = "chunk"
  /\ UNCHANGED << storeVars, loaderVars >>

\* Lines 26-30.
UpChunk ==
  /\ upc = "chunk"
  /\ up' = [up EXCEPT !.chunks = ChunkText(up.extracted_text, CHUNK_SIZE, CHUNK_OVERLAP)]
  /\ upc' = "load"
  /\ UNCHANGED << storeVars, loaderVars >>

\* Line 33: load_embedding_model() is entered.
UpLoadCall ==
  /\ upc = "load"
  /\ LoadCall(1)
  /\ upc' = "loading"
  /\ UNCHANGED << up, storeVars >>

\* load_embedding_model() runs in the script's thread.
UpLoadRun ==
  /\ upc \in {"loading", "embedding"}
  /\ LoadCheck(1) \/ LoadConstruct(1) \/ LoadAssign(1) \/ LoadReturn(1)
  /\ UNCHANGED << upc, up, storeVars >>

\* Line 33 returns, or its exception ends the script run.
UpLoadDone ==
  /\ upc = "loading"
  /\ lpc[1] = "idle"
  /\ IF loadLog[Len(loadLog)].kind = "error"
     THEN upc' = "failed" /\ up' = [up EXCEPT !.shown = "exception"]
     ELSE upc' = "embed" /\ UNCHANGED up
  /\ UNCHANGED << storeVars, loaderVars >>

\* Line 36, embeddings.py line 65: create_embeddings enters
\* load_embedding_model().
UpEmbedCall ==
  /\ upc = "embed"
  /\ LoadCall(1)
  /\ upc' = "embedding"
  /\ UNCHANGED << up, storeVars >>

\* Line 36, embeddings.py lines 67-89: one row per text, or np.array([])
\* for no texts; an exception ends the script run.
UpEmbed ==
  /\ upc = "embedding"
  /\ lpc[1] = "idle"
  /\ IF loadLog[Len(loadLog)].kind = "error"
     THEN upc' = "failed" /\ up' = [up EXCEPT !.shown = "exception"]
     ELSE /\ upc' = "create"
          /\ IF up.chunks = << >>
             THEN up' = [up EXCEPT !.embeddings = BadShape]
             ELSE \E rows \in [1..Len(up.chunks) -> InputVectors] :
                    up' = [up EXCEPT !.embeddings = Matrix(rows)]
  /\ UNCHANGED << storeVars, loaderVars >>

\* Line 39; an exception ends the script run.
UpCreate ==
  /\ upc = "create"
  /\ CreateVectorStore(up.n, up.chunks, up.embeddings)
  /\ IF up.embeddings.ndim < 2
     THEN upc' = "failed" /\ up' = [up EXCEPT !.shown = "exception"]
     ELSE upc' = "success" /\ UNCHANGED up
  /\ UNCHANGED loaderVars

\* Lines 41-45.
UpShow ==
  /\ upc = "success"
  /\ GetVectorStoreInfo
  /\ up' = [up EXCEPT !.shown = "PDF processed successfully!"]
  /\ upc' = "idle"
  /\ UNCHANGED loaderVars

\* A question after the run: the store is searched.
UpSearch ==
  /\ upc = "idle"
  /\ up.n > 0
  /\ \E q \in QueryVectors : SearchSimilarChunks(q, TOP_K_RESULTS)
  /\ UNCHANGED << upc, up, loaderVars >>

\* ------------------------- core/vector_store.py, statement by statement
\* A writer thread runs create_vector_store or clear_vector_store and a
\* reader thread runs search_similar_chunks or get_vector_store_info; a
\* step is one read or one write of a module global.
NoRead == 0 - 1
ReaderIdle ==
  [op |-> "none", query |-> [x |-> 1, y |-> 0], top_k |-> 0, pairs |-> << >>, i |-> 0,
   results |-> << >>, status |-> "none", index_build |-> NoRead,
   chunks_build |-> NoRead, total_vectors |-> 0, total_chunks |-> 0]

ConcInit ==
  /\ wpc = "idle"
  /\ wjob = [index |-> NewIndex(0, Matrix(<< >>)), chunks |-> << >>, build |-> 0]
  /\ nbuilds = 0
  /\ vs_build = 0
  /\ dc_build = 0
  /\ rpc = "idle"
  /\ rloc = ReaderIdle

\* create_vector_store lines 24-37: the index is built in a local; a bad
\* embeddings array raises before anything is assigned.
WBeginCreate(doc, chunks, embeddings) ==
  /\ wpc = "idle"
  /\ nbuilds < MaxBuilds
  /\ nbuilds' = nbuilds + 1
  /\ IF embeddings.ndim < 2
     THEN UNCHANGED << wpc, wjob >>
     ELSE /\ wjob' = [index |-> NewIndex(doc, embeddings), chunks |-> chunks,
                      build |-> nbuilds + 1]
          /\ wpc' = "set_index"
  /\ UNCHANGED << storeVars, vs_build, dc_build, rpc, rloc >>

\* Line 40.
WSetIndex ==
  /\ wpc = "set_index"
  /\ vector_store' = Some(wjob.index)
  /\ vs_build' = wjob.build
  /\ wpc' = "set_chunks"
  /\ UNCHANGED << document_chunks, built, lastBuild, lastOp, wjob, nbuilds, dc_build,
                  rpc, rloc >>

\* Lines 41-44.
WSetChunks ==
  /\ wpc = "set_chunks"
  /\ document_chunks' = Some(wjob.chunks)
  /\ dc_build' = wjob.build
  /\ built' = TRUE
  /\ lastBuild' = [chunks |-> wjob.chunks, nvec |-> Ntotal(wjob.index),
                   replaced |-> dc_build # 0]
  /\ wpc' = "idle"
  /\ UNCHANGED << vector_store, lastOp, wjob, nbuilds, vs_build, rpc, rloc >>

\* clear_vector_store is entered.
WBeginClear ==
  /\ wpc = "idle"
  /\ vs_build # 0 \/ dc_build # 0
  /\ wpc' = "clear_index"
  /\ UNCHANGED << storeVars, wjob, nbuilds, vs_build, dc_build, rpc, rloc >>

\* Line 101.
WClearIndex ==
  /\ wpc = "clear_index"
  /\ vector_store' = None
  /\ vs_build' = 0
  /\ wpc' = "clear_chunks"
  /\ UNCHANGED << document_chunks, built, lastBuild, lastOp, wjob, nbuilds, dc_build,
                  rpc, rloc >>

\* Lines 102-103.
WClearChunks ==
  /\ wpc = "clear_chunks"
  /\ document_chunks' = None
  /\ dc_build' = 0
  /\ built' = FALSE
  /\ wpc' = "idle"
  /\ UNCHANGED << vector_store, lastBuild, lastOp, wjob, nbuilds, vs_build, rpc, rloc >>

ReaderStays == UNCHANGED << storeVars, wpc, wjob, nbuilds, vs_build, dc_build >>
ReaderEnds(status) == rpc' = "idle" /\ rloc' = [rloc EXCEPT !.status = status]

\* search_similar_chunks(query, top_k) is entered.
RBeginSearch(query, top_k) ==
  /\ rpc = "idle"
  /\ rloc' = [ReaderIdle EXCEPT !.op = "search", !.query = query, !.top_k = top_k]
  /\ rpc' = "check_index"
  /\ ReaderStays

\* Line 65, `_vector_store is None`.
RCheckIndex ==
  /\ rpc = "check_index"
  /\ IF IsNone(vector_store) THEN ReaderEnds("not_initialized")
     ELSE rpc' = "check_chunks" /\ UNCHANGED rloc
  /\ ReaderStays

\* Line 65, `_document_chunks is None`.
RCheckChunks ==
  /\ rpc = "check_chunks"
  /\ IF IsNone(document_chunks) THEN ReaderEnds("not_initialized")
     ELSE rpc' = "search" /\ UNCHANGED rloc
  /\ ReaderStays

\* Lines 71-77: _vector_store is read again and searched.
RSearch ==
  /\ rpc = "search"
  /\ IF IsNone(vector_store) THEN ReaderEnds("attribute_error")
     ELSE /\ rloc' = [rloc EXCEPT
                 !.pairs = FaissSearch(Val(vector_store), NormalizeL2(rloc.query),
                                       rloc.top_k),
                 !.i = 1,
                 !.index_build = vs_build]
          /\ rpc' = "loop_len"
  /\ ReaderStays

\* Lines 81-82: the next pair, `idx < len(_document_chunks)`; after the last
\* pair, lines 87-88.
RLoopLen ==
  /\ rpc = "loop_len"
  /\ IF rloc.i > Len(rloc.pairs) THEN ReaderEnds("ok")
     ELSE IF IsNone(document_chunks) THEN ReaderEnds("type_error")
     ELSE /\ rloc' = [rloc EXCEPT
                 !.chunks_build = dc_build,
                 !.i = IF rloc.pairs[rloc.i].idx < Len(Val(document_chunks))
                       THEN rloc.i ELSE rloc.i + 1]
          /\ rpc' = IF rloc.pairs[rloc.i].idx < Len(Val(document_chunks))
                    THEN "loop_item" ELSE "loop_len"
  /\ ReaderStays

\* Lines 83-85: `_document_chunks[idx]`.
RLoopItem ==
  /\ rpc = "loop_item"
  /\ IF IsNone(document_chunks) THEN ReaderEnds("type_error")
     ELSE IF ~PyInRange(Val(document_chunks), rloc.pairs[rloc.i].idx)
     THEN ReaderEnds("index_error")
     ELSE /\ rloc' = [rloc EXCEPT
                 !.chunks_build = dc_build,
                 !.results = Append(rloc.results,
                    [chunk |-> PyItem(Val(document_chunks), rloc.pairs[rloc.i].idx),
                     score |-> rloc.pairs[rloc.i].sim]),
                 !.i = rloc.i + 1]
          /\ rpc' = "loop_len"
  /\ ReaderStays

\* get_vector_store_info() is entered.
RBeginInfo ==
  /\ rpc = "idle"
  /\ rloc' = [ReaderIdle EXCEPT !.op = "info"]
  /\ rpc' = "info_check"
  /\ ReaderStays

\* Lines 114-115.
RInfoCheck ==
  /\ rpc = "info_check"
  /\ IF IsNone(vector_store) THEN ReaderEnds("empty")
     ELSE rpc' = "info_ntotal" /\ UNCHANGED rloc
  /\ ReaderStays

\* Line 119: `_vector_store.ntotal`.
RInfoNtotal ==
  /\ rpc = "info_ntotal"
  /\ IF IsNone(vector_store) THEN ReaderEnds("attribute_error")
     ELSE /\ rloc' = [rloc EXCEPT !.total_vectors = Ntotal(Val(vector_store)),
                                  !.index_build = vs_build]
          /\ rpc' = "info_chunks"
  /\ ReaderStays

\* Line 120: `len(_document_chunks) if _document_chunks else 0`.
RInfoChunks ==
  /\ rpc = "info_chunks"
  /\ rloc' = [rloc EXCEPT
        !.total_chunks = IF IsNone(document_chunks) THEN 0
                         ELSE Len(Val(document_chunks)),
        !.chunks_build = dc_build]
  /\ rpc' = "info_dimension"
  /\ ReaderStays

\* Line 121: `_vector_store.d`.
RInfoDimension ==
  /\ rpc = "info_dimension"
  /\ IF IsNone(vector_store) THEN ReaderEnds("attribute_error")
     ELSE ReaderEnds("ready")
  /\ ReaderStays

\* ------------------------------------------------------- specifications
Init == StoreInit /\ LoaderInit /\ GeminiInit /\ ChunkIdle /\ UploadInit /\ ConcInit

StoreCreate ==
  /\ \E d \in Docs, n \in 0..MaxChunks, e \in EmbeddingInputs :
       CreateVectorStore(d, ChunkList(d, n), e)
  /\ UNCHANGED << loaderVars, geminiVars, chunkVars, uploadVars, concVars >>
StoreSearch ==
  /\ \E q \in QueryVectors, k \in 1..MaxTopK : SearchSimilarChunks(q, k)
  /\ UNCHANGED << loaderVars, geminiVars, chunkVars, uploadVars, concVars >>
StoreClear == ClearVectorStore /\ UNCHANGED << loaderVars, geminiVars, chunkVars, uploadVars, concVars >>
StoreInfo == GetVectorStoreInfo /\ UNCHANGED << loaderVars, geminiVars, chunkVars, uploadVars, concVars >>

StoreNext == StoreCreate \/ StoreSearch \/ StoreClear \/ StoreInfo

\* Sequential calls of the four store functions.
SpecStore == Init /\ [][StoreNext]_vars

LoadCallStep == \E t \in Threads : LoadCall(t) /\ UNCHANGED << storeVars, geminiVars, chunkVars, uploadVars, concVars >>
LoadCallSeqStep == \E t \in Threads : Quiescent /\ LoadCall(t) /\ UNCHANGED << storeVars, geminiVars, chunkVars, uploadVars, concVars >>
LoadCheckStep == \E t \in Threads : LoadCheck(t) /\ UNCHANGED << storeVars, geminiVars, chunkVars, uploadVars, concVars >>
LoadConstructStep == \E t \in Threads : LoadConstruct(t) /\ UNCHANGED << storeVars, geminiVars, chunkVars, uploadVars, concVars >>
LoadAssignStep == \E t \in Threads : LoadAssign(t) /\ UNCHANGED << storeVars, geminiVars, chunkVars, uploadVars, concVars >>
LoadReturnStep == \E t \in Threads : LoadReturn(t) /\ UNCHANGED << storeVars, geminiVars, chunkVars, uploadVars, concVars >>

LoadBody == LoadCheckStep \/ LoadConstructStep \/ LoadAssignStep \/ LoadReturnStep

\* Threads calling load_embedding_model concurrently.
SpecLoad == Init /\ [][LoadCallStep \/ LoadBody]_vars
\* One call of load_embedding_model at a time.
SpecLoadSeq == Init /\ [][LoadCallSeqStep \/ LoadBody]_vars

GeminiCall ==
  /\ gres.status = "none"
  /\ \E q \in GeminiTexts, c \in GeminiTexts, r \in RemoteOutcomes :
       GenerateGeminiResponse(q, c, r)
  /\ UNCHANGED << storeVars, loaderVars, chunkVars, uploadVars, concVars >>

\* One call of generate_gemini_response.
SpecGemini == Init /\ [][GeminiCall]_vars

ChunkInit ==
  StoreInit /\ LoaderInit /\ GeminiInit /\ ChunkCallInit /\ UploadInit /\ ConcInit
ChunkEnterStep == ChunkEnter /\ UNCHANGED << storeVars, loaderVars, geminiVars, uploadVars, concVars >>
ChunkIterateStep == ChunkIterate /\ UNCHANGED << storeVars, loaderVars, geminiVars, uploadVars, concVars >>

\* One call of chunk_text, an action per loop iteration.
SpecChunk == ChunkInit /\ [][ChunkEnterStep \/ ChunkIterateStep]_vars

UpRest == << geminiVars, chunkVars, concVars >>
UpStartStep == (\E f \in Files : UpStart(f)) /\ UNCHANGED UpRest
UpClearStep == UpClear /\ UNCHANGED UpRest
UpExtractStep == UpExtract /\ UNCHANGED UpRest
UpChunkStep == UpChunk /\ UNCHANGED UpRest
UpLoadCallStep == UpLoadCall /\ UNCHANGED UpRest
UpLoadRunStep == UpLoadRun /\ UNCHANGED UpRest
UpLoadDoneStep == UpLoadDone /\ UNCHANGED UpRest
UpEmbedCallStep == UpEmbedCall /\ UNCHANGED UpRest
UpEmbedStep == UpEmbed /\ UNCHANGED UpRest
UpCreateStep == UpCreate /\ UNCHANGED UpRest
UpShowStep == UpShow /\ UNCHANGED UpRest
UpSearchStep == UpSearch /\ UNCHANGED UpRest

UploadNext ==
  \/ UpStartStep \/ UpClearStep \/ UpExtractStep \/ UpChunkStep
  \/ UpLoadCallStep \/ UpLoadRunStep \/ UpLoadDoneStep
  \/ UpEmbedCallStep \/ UpEmbedStep \/ UpCreateStep \/ UpShowStep \/ UpSearchStep

ConcRest == << loaderVars, geminiVars, chunkVars, uploadVars >>
WBeginCreateStep ==
  /\ \E d \in Docs, n \in 1..MaxChunks, e \in EmbeddingInputs :
       (e.ndim = 2 => Len(e.rows) = n) /\ WBeginCreate(d, ChunkList(d, n), e)
  /\ UNCHANGED ConcRest
WSetIndexStep == WSetIndex /\ UNCHANGED ConcRest
WSetChunksStep == WSetChunks /\ UNCHANGED ConcRest
WBeginClearStep == WBeginClear /\ UNCHANGED ConcRest
WClearIndexStep == WClearIndex /\ UNCHANGED ConcRest
WClearChunksStep == WClearChunks /\ UNCHANGED ConcRest
RBeginSearchStep ==
  /\ \E q \in QueryVectors, k \in 1..MaxTopK : RBeginSearch(q, k)
  /\ UNCHANGED ConcRest
RCheckIndexStep == RCheckIndex /\ UNCHANGED ConcRest
RCheckChunksStep == RCheckChunks /\ UNCHANGED ConcRest
RSearchStep == RSearch /\ UNCHANGED ConcRest
RLoopLenStep == RLoopLen /\ UNCHANGED ConcRest
RLoopItemStep == RLoopItem /\ UNCHANGED ConcRest
RBeginInfoStep == RBeginInfo /\ UNCHANGED ConcRest
RInfoCheckStep == RInfoCheck /\ UNCHANGED ConcRest
RInfoNtotalStep == RInfoNtotal /\ UNCHANGED ConcRest
RInfoChunksStep == RInfoChunks /\ UNCHANGED ConcRest
RInfoDimensionStep == RInfoDimension /\ UNCHANGED ConcRest

ConcNext ==
  \/ WBeginCreateStep \/ WSetIndexStep \/ WSetChunksStep
  \/ WBeginClearStep \/ WClearIndexStep \/ WClearChunksStep
  \/ RBeginSearchStep \/ RCheckIndexStep \/ RCheckChunksStep \/ RSearchStep
  \/ RLoopLenStep \/ RLoopItemStep
  \/ RBeginInfoStep \/ RInfoCheckStep \/ RInfoNtotalStep \/ RInfoChunksStep
  \/ RInfoDimensionStep

\* A writer thread and a reader thread on the store.
SpecConc == Init /\ [][ConcNext]_vars

\* Script runs of app.py with an uploaded file, one at a time.
SpecUpload == Init /\ [][UploadNext]_vars

\* ------------------------------------------------ claims on the store
Range(f) == {f[i] : i \in DOMAIN f}
ResultChunks == {lastOp.results[i].chunk : i \in DOMAIN lastOp.results}

\* The store holds N >= 1 chunk/vector pairs.
HoldsPairs ==
  /\ ~IsNone(vector_store)
  /\ ~IsNone(document_chunks)
  /\ Len(Val(document_chunks)) = Ntotal(Val(vector_store))
  /\ Ntotal(Val(vector_store)) >= 1

\* C1: on a store of N >= 1 chunk/vector pairs a search returns at most
\* min(top_k, N) pairs; when top_k exceeds N it returns each of the N stored
\* chunks exactly once and nothing else.
C1_TopKCap ==
  (lastOp.op = "search" /\ HoldsPairs) =>
    LET N == Ntotal(Val(vector_store))
    IN  /\ lastOp.status = "ok"
        /\ Len(lastOp.results) <= Min2(lastOp.top_k, N)
        /\ lastOp.top_k > N =>
             /\ Len(lastOp.results) = N
             /\ ResultChunks = Range(Val(document_chunks))

\* C7: a search fails with the not-initialized error, returning nothing,
\* exactly when no build has succeeded since the most recent clear or since
\* the start; and such a failing search changes nothing in the store.
C7_NotReadyIffNotBuilt ==
  /\ [](lastOp.op = "search" =>
          /\ (lastOp.status = "not_initialized") <=> ~built
          /\ lastOp.status = "not_initialized" => lastOp.results = << >>)
  /\ [][(lastOp'.op = "search" /\ lastOp'.status = "not_initialized")
          => UNCHANGED << vector_store, document_chunks >>]_vars

\* A search fails as not initialized after a build and a later clear.
C7_Witness ==
  /\ lastOp.op = "search"
  /\ lastOp.status = "not_initialized"
  /\ lastBuild.nvec > 0
  /\ ~built

\* C8: after a successful build, and until the next clear, info reports the
\* chunk count and the vector count of that build alone, and a search
\* returns only chunks of that build.
C8_BuildReplaces ==
  built =>
    /\ lastOp.op = "info" =>
         /\ lastOp.status = "ready"
         /\ lastOp.total_chunks = Len(lastBuild.chunks)
         /\ lastOp.total_vectors = lastBuild.nvec
    /\ lastOp.op = "search" => ResultChunks \subseteq Range(lastBuild.chunks)
    /\ lastOp.op = "create" /\ lastOp.status = "ok" =>
         /\ Val(document_chunks) = lastBuild.chunks
         /\ Ntotal(Val(vector_store)) = lastBuild.nvec

\* Info after a build that replaced an earlier, non-empty index.
C8_Witness ==
  /\ built
  /\ lastBuild.replaced
  /\ lastOp.op = "info"
  /\ lastOp.total_chunks = 1
  /\ lastOp.total_vectors = 1

\* ------------------------------------------- claims on the model cache
Returned == {i \in DOMAIN loadLog : loadLog[i].kind # "error"}

\* C5: when callers race on an empty cache and no constructor call fails,
\* the constructor runs once and every caller gets the same model.
C5_InitOnce ==
  (\A i \in DOMAIN loadLog : loadLog[i].kind # "error") =>
    /\ initCount <= 1
    /\ \A i, j \in Returned : loadLog[i].model = loadLog[j].model

\* C6: in sequential calls the cache holds a model exactly when an earlier
\* call succeeded; a failing call leaves the cache empty; after the first
\* success every later call returns that model and the constructor is not
\* run again.
C6_CacheIffSucceeded ==
  /\ Quiescent => (~IsNone(embedding_model) <=> Returned # {})
  /\ \A i \in DOMAIN loadLog :
       /\ loadLog[i].kind = "error" => IsNone(loadLog[i].cacheAfter)
       /\ loadLog[i].kind = "loaded" =>
            /\ ~IsNone(loadLog[i].model)
            /\ \A j \in 1..(i - 1) : loadLog[j].kind = "error"
       /\ loadLog[i].kind = "cached" =>
            \E f \in 1..(i - 1) :
              /\ loadLog[f].kind = "loaded"
              /\ loadLog[f].model = loadLog[i].model
  /\ Quiescent =>
       initCount = Cardinality({i \in DOMAIN loadLog : loadLog[i].kind # "cached"})

\* A failed call, then a successful one, then a call served from the cache.
C6_Witness ==
  /\ Len(loadLog) = 3
  /\ loadLog[1].kind = "error"
  /\ loadLog[2].kind = "loaded"
  /\ loadLog[3].kind = "cached"
  /\ initCount = 2

\* ------------------------------------------- claims on the generation call
IsBlank(s) == \A i \in 1..Len(s) : s[i] \in WhiteSpace

\* C9: the remote model is called only when query and context are both
\* non-blank; a blank query gives status error, a non-blank query with a
\* blank context gives status no_context, both without a remote call.
C9_NoRemoteCallOnBlank ==
  gres.status # "none" =>
    /\ IsBlank(gres.query) => (gres.status = "error" /\ ~gres.remote_called)
    /\ (~IsBlank(gres.query) /\ IsBlank(gres.context)) =>
         (gres.status = "no_context" /\ ~gres.remote_called)
    /\ gres.remote_called => (~IsBlank(gres.query) /\ ~IsBlank(gres.context))

\* A whitespace-only query with a non-blank context was answered.
C9_Witness ==
  /\ gres.status = "error"
  /\ ~gres.remote_called
  /\ Len(gres.query) > 0
  /\ ~IsBlank(gres.context)

\* ---------------------------------------------------- claims on chunk_text
\* The positions (0-based) of the text that lie inside the slice of a chunk.
Covered == {p \in 0..(Len(text) - 1) :
              \E i \in DOMAIN spans : spans[i].from <= p /\ p < spans[i].to}

\* C2: when chunk_text has returned, every non-whitespace character of the
\* text lies inside at least one chunk.
C2_Coverage ==
  (cpc = "done" /\ spans # << >>) =>
    \A p \in 0..(Len(text) - 1) : ~IsSpace(text[p + 1]) => p \in Covered

\* The sentence endings among the trailing ScanWindow characters of the
\* window [from, wend) that are followed in the text by whitespace or an
\* uppercase letter (0-based positions).
Terminators(sp) ==
  {p \in Max2(sp.from, sp.wend - ScanWindow)..(sp.wend - 1) :
     /\ text[p + 1] \in SentenceEndings
     /\ p + 2 <= Len(text)
     /\ (IsSpace(text[p + 2]) \/ IsUpper(text[p + 2]))}

\* C10: a non-final window with such a sentence ending yields a chunk that
\* ends immediately after the last of them.
C10_SentenceBreak ==
  \A i \in DOMAIN spans :
    (~spans[i].final /\ Terminators(spans[i]) # {}) =>
      spans[i].stop = SetMax(Terminators(spans[i])) + 1

\* C11: chunk_text terminates: every loop iteration that does not emit the
\* final chunk leaves the cursor strictly ahead of where it was, whichever
\* break rule it used.
C11_CursorAdvances ==
  [][(cpc = "loop" /\ cpc' = "loop") => cstart' > cstart]_vars

\* ------------------------------------------- claims on the upload branch
\* C4: when text extraction fails nothing is chunked, embedded or indexed,
\* and the vector store, cleared at the start of the run, stays empty.
C4_FailureNotIndexed ==
  (up.outcome \notin {"none", "ok"}) =>
    /\ IsNone(vector_store)
    /\ IsNone(document_chunks)
    /\ lastOp.op = "search" => lastOp.results = << >>

\* ------------------------------------- claims on the store under threads
\* C3: the chunk list a reader reads comes from the build of the index it
\* used (for a cleared store: both are none).
C3_NoTornRead ==
  (rloc.index_build # NoRead /\ rloc.chunks_build # NoRead) =>
    rloc.chunks_build = rloc.index_build

====
